---- MODULE Spec2Model ----
(***************************************************************************)
(* Model of the target-processing pipeline stages of cursorless:           *)
(*   src/src/processTargets/modifiers/PositionStage.ts                     *)
(*   src/src/processTargets/pipelineStages/TokenStage.ts                   *)
(*   src/src/typings/Types.ts (TypedSelection)                             *)
(*                                                                         *)
(* Selections are JavaScript objects: they live in a heap and are named by *)
(* references, so that aliasing and in-place mutation are expressible.     *)
(* Positions and ranges are the editor's immutable values.  Lines and      *)
(* columns are zero-based as in the editor; TLA+ sequences are one-based.  *)
(***************************************************************************)
EXTENDS Integers, Sequences, FiniteSets, TLC

\* Bounds of the model.
MaxDocLen == 3      \* characters of the document text, line breaks included
MaxStages == 2      \* stages folded over one selection

\* The characters of a document: a word character, a whitespace character
\* and the line break.
NL == "\n"
Chars == {"a", " ", NL}

\* An optional field (`x?: T`): absent/undefined is <<>>, a value v is <<v>>.
None == <<>>
Some(v) == <<v>>
IsDefined(o) == o # <<>>
Get(o) == o[1]

VARIABLES document, heap, stages
vars == <<document, heap, stages>>

----------------------------------------------------------------------------
\* The editor's primitives, as the stages use them.

\* new vscode.Position(line, character)
Position(l, c) == [line |-> l, character |-> c]

\* position.isBefore(other)
isBefore(p, q) ==
  \/ p.line < q.line
  \/ p.line = q.line /\ p.character < q.character

\* position.isEqual(other)
isEqual(p, q) == p.line = q.line /\ p.character = q.character

\* new vscode.Range(start, end): the constructor orders its two ends.
RangeOf(p, q) ==
  IF isBefore(q, p) THEN [start |-> q, end |-> p] ELSE [start |-> p, end |-> q]

\* new Range(startLine, startCharacter, endLine, endCharacter)
Range(sl, sc, el, ec) == RangeOf(Position(sl, sc), Position(el, ec))

\* The lines of a text: the text split at its line breaks.
RECURSIVE SplitLines(_)
SplitLines(text) ==
  IF \A i \in 1..Len(text) : text[i] # NL
  THEN <<text>>
  ELSE LET k == CHOOSE i \in 1..Len(text) :
                  text[i] = NL /\ \A j \in 1..(i - 1) : text[j] # NL
       IN <<SubSeq(text, 1, k - 1)>> \o SplitLines(SubSeq(text, k + 1, Len(text)))

\* document.lineAt(position): the text of the line and its range.
lineAt(doc, p) ==
  [text  |-> doc[p.line + 1],
   range |-> Range(p.line, 0, p.line, Len(doc[p.line + 1]))]

\* The character class \s, over the characters of a line.
IsWhitespace(c) == c = " "

\* String.prototype.slice(begin, end) and slice(begin), zero-based.
slice(text, from, to) == SubSeq(text, from + 1, to)
sliceFrom(text, from) == SubSeq(text, from + 1, Len(text))

\* Mutant of matchTrailingWhitespace: the pattern /\s$/, which matches the
\* last whitespace character alone.
matchLastWhitespaceOnly(text) ==
  IF Len(text) > 0 /\ IsWhitespace(text[Len(text)])
  THEN Some(SubSeq(text, Len(text), Len(text)))
  ELSE None

\* text.match(/\s+$/): the leftmost match, that is the whole run of
\* whitespace the text ends with; null (None) when it ends with none.
matchTrailingWhitespace(text) ==
  LET starts == {i \in 1..Len(text) : \A j \in i..Len(text) : IsWhitespace(text[j])}
  IN IF starts = {} THEN None
     ELSE LET first == CHOOSE i \in starts : \A k \in starts : i <= k
          IN Some(SubSeq(text, first, Len(text)))

\* text.match(/^\s+/): greedy from the first character; null when the text
\* starts with no whitespace.
matchLeadingWhitespace(text) ==
  LET ends == {i \in 1..Len(text) : \A j \in 1..i : IsWhitespace(text[j])}
  IN IF ends = {} THEN None
     ELSE LET last == CHOOSE i \in ends : \A k \in ends : k <= i
          IN Some(SubSeq(text, 1, last))

----------------------------------------------------------------------------
\* TypedSelection (Types.ts): the fields of a selection.
TypedSelection(ed, rev, raw, delim, content, interior, leading, trailing, bnd) ==
  [editor                 |-> ed,
   isReversed             |-> rev,
   isRawSelection         |-> raw,
   delimiter              |-> delim,
   contentRange           |-> content,
   interiorRange          |-> interior,
   leadingDelimiterRange  |-> leading,
   trailingDelimiterRange |-> trailing,
   boundary               |-> bnd]

\* The position enum of a position modifier, and a value outside it.
Positions == {"before", "start", "after", "end"}
UnknownPosition == "unknown"

\* Mutant of Spread: `const res = selection`, an alias of the input instead
\* of a copy.
SpreadAlias(h, sel) == [heap |-> h, ref |-> sel]

\* Mutant of Spread: a copy that lists the fields by hand and forgets the
\* delimiter ranges.
SpreadWithoutDelimiterRanges(h, sel) ==
  [heap |-> Append(h, [h[sel] EXCEPT !.leadingDelimiterRange = None,
                                     !.trailingDelimiterRange = None]),
   ref  |-> Len(h) + 1]

\* `{ ...selection }`: a fresh object with the fields of the one referenced.
Spread(h, sel) == [heap |-> Append(h, h[sel]), ref |-> Len(h) + 1]

----------------------------------------------------------------------------
\* PositionStage.ts

\* Mutant of range: a range one character wide after the position.
rangeOneWide(position) ==
  IF IsDefined(position)
  THEN Some(RangeOf(Get(position),
                    Position(Get(position).line, Get(position).character + 1)))
  ELSE None

\* range(position?): the zero-width range at a position, undefined for none.
range(position) ==
  IF IsDefined(position) THEN Some(RangeOf(Get(position), Get(position))) ELSE None

\* `r?.start` and `r?.end`
optStart(r) == IF IsDefined(r) THEN Some(Get(r).start) ELSE None

\* Mutant of optEnd: `res.interiorRange?.start` copied into the "after" case.
optEndTakesStart(r) == IF IsDefined(r) THEN Some(Get(r).start) ELSE None

optEnd(r) == IF IsDefined(r) THEN Some(Get(r).end) ELSE None

\* run(context, stage, selection): the heap after the call and the reference
\* returned.  The switch has no default case.
PositionStage(h, stage, sel) ==
  LET copy == Spread(h, sel)
      res == copy.ref
      h0 == copy.heap
  IN IF stage.position \in {"before", "start"} THEN
       LET h1 == [h0 EXCEPT ![res].contentRange =
                     Get(range(Some(h0[res].contentRange.start)))]
           h2 == [h1 EXCEPT ![res].interiorRange =
                     range(optStart(h1[res].interiorRange))]
       IN [heap |-> h2, ref |-> res, outcome |-> "returned"]
     ELSE IF stage.position \in {"after", "end"} THEN
       LET h1 == [h0 EXCEPT ![res].contentRange =
                     Get(range(Some(h0[res].contentRange.end)))]
           h2 == [h1 EXCEPT ![res].interiorRange =
                     range(optEnd(h1[res].interiorRange))]
       IN [heap |-> h2, ref |-> res, outcome |-> "returned"]
     ELSE [heap |-> h0, ref |-> res, outcome |-> "returned"]

----------------------------------------------------------------------------
\* TokenStage.ts

\* Mutant of isInDelimitedList: the leading side is not required.
isInDelimitedListLeadingUnchecked(leadingDelimiterRange, trailingDelimiterRange, start, end, endLine) ==
  /\ IsDefined(leadingDelimiterRange) \/ IsDefined(trailingDelimiterRange)
  /\ IsDefined(trailingDelimiterRange) \/ isEqual(end, endLine.range.end)

\* Mutant of isInDelimitedList: the trailing side is not required.
isInDelimitedListTrailingUnchecked(leadingDelimiterRange, trailingDelimiterRange, start, end, endLine) ==
  /\ IsDefined(leadingDelimiterRange) \/ IsDefined(trailingDelimiterRange)
  /\ IsDefined(leadingDelimiterRange) \/ start.character = 0

\* The qualification policy of getDelimiterRanges.
isInDelimitedList(leadingDelimiterRange, trailingDelimiterRange, start, end, endLine) ==
  /\ IsDefined(leadingDelimiterRange) \/ IsDefined(trailingDelimiterRange)
  /\ IsDefined(leadingDelimiterRange) \/ start.character = 0
  /\ IsDefined(trailingDelimiterRange) \/ isEqual(end, endLine.range.end)

\* The leading scan of getDelimiterRanges.
leadingScan(startLine, start) ==
  LET leadingText == slice(startLine.text, 0, start.character)
      leadingDelimiters == matchTrailingWhitespace(leadingText)
  IN IF IsDefined(leadingDelimiters)
     THEN Some(Range(start.line, start.character - Len(Get(leadingDelimiters)),
                     start.line, start.character))
     ELSE None

\* The trailing scan of getDelimiterRanges.
trailingScan(endLine, end) ==
  LET trailingText == sliceFrom(endLine.text, end.character)
      trailingDelimiters == matchLeadingWhitespace(trailingText)
  IN IF IsDefined(trailingDelimiters)
     THEN Some(Range(end.line, end.character,
                     end.line, end.character + Len(Get(trailingDelimiters))))
     ELSE None

\* getDelimiterRanges(selection), on the document of the selection's editor.
getDelimiterRanges(doc, selection) ==
  LET start == selection.contentRange.start
      end == selection.contentRange.end
      endLine == lineAt(doc, end)
      startLine == lineAt(doc, start)
      leadingDelimiterRange == leadingScan(startLine, start)
      trailingDelimiterRange == trailingScan(endLine, end)
      qualified == isInDelimitedList(leadingDelimiterRange, trailingDelimiterRange,
                                     start, end, endLine)
  IN [leadingDelimiterRange  |-> IF qualified THEN leadingDelimiterRange ELSE None,
      trailingDelimiterRange |-> IF qualified THEN trailingDelimiterRange ELSE None]

\* Mutant of TokenStage: { delimiter: " ", ...selection, ... }, where the
\* delimiter of the input overrides the space.
TokenStageDelimiterFirst(h, doc, stage, sel) ==
  LET copy == Spread(h, sel)
      res == copy.ref
      h0 == copy.heap
      h1 == [h0 EXCEPT ![res].delimiter =
               IF IsDefined(h[sel].delimiter) THEN h[sel].delimiter ELSE Some(" ")]
      ranges == getDelimiterRanges(doc, h1[sel])
      h2 == [h1 EXCEPT ![res].leadingDelimiterRange = ranges.leadingDelimiterRange,
                       ![res].trailingDelimiterRange = ranges.trailingDelimiterRange]
  IN [heap |-> h2, ref |-> res, outcome |-> "returned"]

\* run(context, stage, selection): { ...selection, delimiter: " ",
\* ...getDelimiterRanges(selection) }, later keys overriding earlier ones.
TokenStage(h, doc, stage, sel) ==
  LET copy == Spread(h, sel)
      res == copy.ref
      h0 == copy.heap
      h1 == [h0 EXCEPT ![res].delimiter = Some(" ")]
      ranges == getDelimiterRanges(doc, h1[sel])
      h2 == [h1 EXCEPT ![res].leadingDelimiterRange = ranges.leadingDelimiterRange,
                       ![res].trailingDelimiterRange = ranges.trailingDelimiterRange]
  IN [heap |-> h2, ref |-> res, outcome |-> "returned"]

----------------------------------------------------------------------------
\* The selections a pipeline starts from.

\* The texts of at most MaxDocLen characters.
Texts == UNION {[1..n -> Chars] : n \in 0..MaxDocLen}

\* The positions and the well-formed ranges of a document.
DocPositions(doc) ==
  {p \in [line : 0..(Len(doc) - 1), character : 0..MaxDocLen] :
     p.character <= Len(doc[p.line + 1])}
DocRanges(doc) ==
  {r \in [start : DocPositions(doc), end : DocPositions(doc)] :
     ~isBefore(r.end, r.start)}
SubRanges(doc, r) ==
  {x \in DocRanges(doc) : ~isBefore(x.start, r.start) /\ ~isBefore(r.end, x.end)}

\* The interior ranges tried for a content range: none, the content range
\* itself, and the content range without its first and last character.
InteriorRanges(doc, c) ==
  {None, Some(c)} \cup
  {Some(r) : r \in {x \in SubRanges(doc, c) :
                      /\ x.start = Position(c.start.line, c.start.character + 1)
                      /\ x.end = Position(c.end.line, c.end.character - 1)}}

\* A selection as the upstream resolver hands it over: either with no
\* optional field but possibly the interior range, or with every field set,
\* the delimiter ranges adjacent to the content range.
InitialSelections(doc) ==
  LET bare(c, i) ==
        TypedSelection("editor", None, None, None, c, i, None, None, None)
      rich(c, i) ==
        LET s == c.start
            e == c.end
            len == Len(doc[e.line + 1])
            lead == Range(s.line, IF s.character > 0 THEN s.character - 1 ELSE 0,
                          s.line, s.character)
            trail == Range(e.line, e.character,
                           e.line, IF e.character < len THEN e.character + 1 ELSE len)
        IN TypedSelection("editor", Some(TRUE), Some(TRUE), Some(","), c, i,
                          Some(lead), Some(trail),
                          Some(<<RangeOf(s, s), RangeOf(e, e)>>))
  IN UNION {UNION {{bare(c, i), rich(c, i)} : i \in InteriorRanges(doc, c)} :
              c \in DocRanges(doc)}

----------------------------------------------------------------------------
\* The pipeline: the stages fold over one selection; every object ever made
\* stays in the heap, as a mark or an earlier result held elsewhere would.

\* The selection the next stage receives.
Current == IF stages = <<>> THEN 1 ELSE stages[Len(stages)].out

Init ==
  /\ document \in {SplitLines(t) : t \in Texts}
  /\ heap \in {<<s>> : s \in InitialSelections(document)}
  /\ stages = <<>>

RunPositionStage ==
  \E p \in Positions \cup {UnknownPosition} :
    /\ Len(stages) < MaxStages
    /\ LET stage == [type |-> "position", position |-> p]
           r == PositionStage(heap, stage, Current)
       IN /\ heap' = r.heap
          /\ stages' = Append(stages, [kind |-> "position", position |-> p,
                                       in |-> Current, out |-> r.ref,
                                       outcome |-> r.outcome])
    /\ UNCHANGED document

RunTokenStage ==
  /\ Len(stages) < MaxStages
  /\ LET stage == [type |-> "containingScope", scopeType |-> "token"]
         r == TokenStage(heap, document, stage, Current)
     IN /\ heap' = r.heap
        /\ stages' = Append(stages, [kind |-> "token", position |-> "",
                                     in |-> Current, out |-> r.ref,
                                     outcome |-> r.outcome])
  /\ UNCHANGED document

Next == RunPositionStage \/ RunTokenStage

Spec == Init /\ [][Next]_vars

----------------------------------------------------------------------------
\* Vocabulary of the properties: the stage applications made so far, with
\* the selection each received and the selection it returned.

StageIds == 1..Len(stages)
In(i) == heap[stages[i].in]
Out(i) == heap[stages[i].out]
IsTokenRun(i) == stages[i].kind = "token"
IsPositionRun(i) == stages[i].kind = "position" /\ stages[i].position \in Positions
AtStart(i) == stages[i].position \in {"before", "start"}

\* The character at a zero-based column of a zero-based line.
CharAt(l, c) == document[l + 1][c + 1]
LineLen(l) == Len(document[l + 1])
EndOfLine(p) == p.character = LineLen(p.line)

\* The length of the maximal run of whitespace right before / right after a
\* position, on the line of that position.
WhitespaceBefore(p) ==
  CHOOSE n \in 0..p.character :
    /\ \A k \in 1..n : IsWhitespace(CharAt(p.line, p.character - k))
    /\ n = p.character \/ ~IsWhitespace(CharAt(p.line, p.character - n - 1))
WhitespaceAfter(p) ==
  CHOOSE n \in 0..(LineLen(p.line) - p.character) :
    /\ \A k \in 0..(n - 1) : IsWhitespace(CharAt(p.line, p.character + k))
    /\ p.character + n = LineLen(p.line) \/ ~IsWhitespace(CharAt(p.line, p.character + n))

\* The range of that run, absent when the run is empty.
LeadingRun(p) ==
  IF WhitespaceBefore(p) = 0 THEN None
  ELSE Some([start |-> [line |-> p.line, character |-> p.character - WhitespaceBefore(p)],
             end   |-> p])
TrailingRun(p) ==
  IF WhitespaceAfter(p) = 0 THEN None
  ELSE Some([start |-> p,
             end   |-> [line |-> p.line, character |-> p.character + WhitespaceAfter(p)]])

Qualifies(c) ==
  /\ WhitespaceBefore(c.start) > 0 \/ WhitespaceAfter(c.end) > 0
  /\ WhitespaceBefore(c.start) > 0 \/ c.start.character = 0
  /\ WhitespaceAfter(c.end) > 0 \/ EndOfLine(c.end)

MultiLine(r) == r.start.line # r.end.line

----------------------------------------------------------------------------
\* C1 - Token Stage qualification policy: the output of the Token Stage
\* carries the two computed whitespace ranges exactly when (a) one of the
\* scans found a run, (b) a leading run was found or the content starts at
\* column 0, and (c) a trailing run was found or the content ends at the end
\* of its line; otherwise both delimiter ranges are absent, whatever one side
\* matched and whatever the input carried.
C1_QualificationPolicy ==
  \A i \in StageIds : IsTokenRun(i) =>
    LET c == In(i).contentRange
    IN IF Qualifies(c)
       THEN /\ Out(i).leadingDelimiterRange = LeadingRun(c.start)
            /\ Out(i).trailingDelimiterRange = TrailingRun(c.end)
       ELSE /\ Out(i).leadingDelimiterRange = None
            /\ Out(i).trailingDelimiterRange = None

\* A selection that carried delimiter ranges and has whitespace on one side
\* only, away from the line boundary: the Token Stage left it with neither.
C1_Witness ==
  \E i \in StageIds :
    /\ IsTokenRun(i)
    /\ IsDefined(In(i).leadingDelimiterRange)
    /\ IsDefined(In(i).trailingDelimiterRange)
    /\ WhitespaceAfter(In(i).contentRange.end) > 0
    /\ ~Qualifies(In(i).contentRange)
    /\ Out(i).leadingDelimiterRange = None
    /\ Out(i).trailingDelimiterRange = None

\* C2 - Position Stage result: for before/start the output content range is
\* the zero-width range at the start of the input content range and the
\* output interior range the zero-width range at the start of the input
\* interior range, absent if that was absent; for after/end the same with
\* the ends.
C2_PositionResult ==
  \A i \in StageIds : IsPositionRun(i) =>
    LET c == In(i).contentRange
        p == IF AtStart(i) THEN c.start ELSE c.end
        n == In(i).interiorRange
    IN /\ Out(i).contentRange = [start |-> p, end |-> p]
       /\ Out(i).contentRange.start = Out(i).contentRange.end
       /\ IF IsDefined(n)
          THEN LET q == IF AtStart(i) THEN Get(n).start ELSE Get(n).end
               IN Out(i).interiorRange = Some([start |-> q, end |-> q])
          ELSE Out(i).interiorRange = None

\* "after" applied to a content range spanning lines whose interior range
\* ends elsewhere than the content range.
C2_Witness ==
  \E i \in StageIds :
    /\ IsPositionRun(i)
    /\ stages[i].position = "after"
    /\ MultiLine(In(i).contentRange)
    /\ IsDefined(In(i).interiorRange)
    /\ Get(In(i).interiorRange).end # In(i).contentRange.end
    /\ Get(In(i).interiorRange).end # Get(In(i).interiorRange).start
    /\ Out(i).contentRange.start = In(i).contentRange.end

\* C3 - Adjacency across the pipeline: folding stages with positions of the
\* enum over a selection, every selection made has its leading delimiter
\* range, if defined, ending at its content start and its trailing delimiter
\* range, if defined, starting at its content end.
Adjacent(s) ==
  /\ IsDefined(s.leadingDelimiterRange) =>
       Get(s.leadingDelimiterRange).end = s.contentRange.start
  /\ IsDefined(s.trailingDelimiterRange) =>
       Get(s.trailingDelimiterRange).start = s.contentRange.end
C3_AdjacencyPreserved ==
  (\A i \in StageIds : IsTokenRun(i) \/ IsPositionRun(i)) =>
    \A ref \in 1..Len(heap) : Adjacent(heap[ref])

\* C4 - Token Stage delimiter ranges are exact and adjacent: a leading range
\* of the output lies on the line of the content start, ends there and
\* covers the maximal whitespace run before it; a trailing range lies on the
\* line of the content end, starts there and covers the maximal whitespace
\* run after it.
C4_DelimiterRangesExact ==
  \A i \in StageIds : IsTokenRun(i) =>
    LET c == Out(i).contentRange
        l == Out(i).leadingDelimiterRange
        t == Out(i).trailingDelimiterRange
    IN /\ IsDefined(l) =>
            /\ Get(l).start.line = c.start.line
            /\ Get(l).end = c.start
            /\ WhitespaceBefore(c.start) > 0
            /\ Get(l).start.character = c.start.character - WhitespaceBefore(c.start)
       /\ IsDefined(t) =>
            /\ Get(t).end.line = c.end.line
            /\ Get(t).start = c.end
            /\ WhitespaceAfter(c.end) > 0
            /\ Get(t).end.character = c.end.character + WhitespaceAfter(c.end)

\* A content range spanning lines with a delimiter range on each side, each
\* on its own line.
C4_Witness ==
  \E i \in StageIds :
    /\ IsTokenRun(i)
    /\ MultiLine(Out(i).contentRange)
    /\ IsDefined(Out(i).leadingDelimiterRange)
    /\ IsDefined(Out(i).trailingDelimiterRange)
    /\ Get(Out(i).leadingDelimiterRange).start.line = Out(i).contentRange.start.line
    /\ Get(Out(i).trailingDelimiterRange).end.line = Out(i).contentRange.end.line

\* C5 - Delimiter qualification totality: the Token Stage output has only
\* the leading range defined only if the content ends at the end of its
\* line, and only the trailing range defined only if the content starts at
\* column 0.
C5_QualificationTotality ==
  \A i \in StageIds : IsTokenRun(i) =>
    LET o == Out(i)
    IN /\ (IsDefined(o.leadingDelimiterRange) /\ ~IsDefined(o.trailingDelimiterRange))
            => EndOfLine(o.contentRange.end)
       /\ (IsDefined(o.trailingDelimiterRange) /\ ~IsDefined(o.leadingDelimiterRange))
            => o.contentRange.start.character = 0

\* An output with the leading range alone, on a line with text before the
\* whitespace.
C5_Witness ==
  \E i \in StageIds :
    /\ IsTokenRun(i)
    /\ IsDefined(Out(i).leadingDelimiterRange)
    /\ ~IsDefined(Out(i).trailingDelimiterRange)
    /\ Get(Out(i).leadingDelimiterRange).start.character > 0
    /\ EndOfLine(Out(i).contentRange.end)

\* C6 - Invalid descriptor handling: for a position outside the enum the
\* Position Stage reports an error and returns no selection equal to its
\* input.
C6_InvalidDescriptorReported ==
  \A i \in StageIds :
    (stages[i].kind = "position" /\ stages[i].position \notin Positions) =>
      /\ stages[i].outcome = "threw"
      /\ Out(i) # In(i)

\* C7 - Position Stage frame: for a position of the enum, the output's
\* editor, delimiter, delimiter ranges, boundary, isRawSelection and
\* isReversed equal the input's.
C7_PositionFrame ==
  \A i \in StageIds : IsPositionRun(i) =>
    /\ Out(i).editor = In(i).editor
    /\ Out(i).delimiter = In(i).delimiter
    /\ Out(i).leadingDelimiterRange = In(i).leadingDelimiterRange
    /\ Out(i).trailingDelimiterRange = In(i).trailingDelimiterRange
    /\ Out(i).boundary = In(i).boundary
    /\ Out(i).isRawSelection = In(i).isRawSelection
    /\ Out(i).isReversed = In(i).isReversed

\* The Position Stage changed the content range of a selection that has
\* every optional field set.
C7_Witness ==
  \E i \in StageIds :
    /\ IsPositionRun(i)
    /\ IsDefined(In(i).delimiter)
    /\ IsDefined(In(i).leadingDelimiterRange)
    /\ IsDefined(In(i).trailingDelimiterRange)
    /\ IsDefined(In(i).boundary)
    /\ IsDefined(In(i).isRawSelection)
    /\ IsDefined(In(i).isReversed)
    /\ Out(i).contentRange # In(i).contentRange
    /\ Out(i).leadingDelimiterRange = In(i).leadingDelimiterRange

\* C8 - Copy-on-write: a stage changes no selection that exists when it is
\* called (its input and every earlier result alike), and the selection it
\* returns is a new object.
C8_NoStageMutatesInput ==
  [][/\ Len(heap') >= Len(heap)
     /\ \A ref \in 1..Len(heap) : heap'[ref] = heap[ref]
     /\ stages' # stages =>
          LET run == stages'[Len(stages')]
          IN /\ run.out # run.in
             /\ run.out \notin 1..Len(heap)]_vars

\* Two stages ran, each returned a selection that differs from the one it
\* received, and the first selection is still as it was handed over.
C8_Witness ==
  /\ Len(stages) = 2
  /\ stages[2].in = stages[1].out
  /\ Out(1) # In(1)
  /\ Out(2) # In(2)
  /\ heap[1] \in InitialSelections(document)
  /\ heap[1].contentRange.start # heap[1].contentRange.end

\* C9 - Position idempotence: applying the Position Stage with a position of
\* the enum to the result of applying it with the same position yields a
\* selection equal in every field to that result.
C9_PositionIdempotent ==
  \A i \in StageIds :
    (/\ i > 1
     /\ IsPositionRun(i)
     /\ IsPositionRun(i - 1)
     /\ stages[i].position = stages[i - 1].position
     /\ stages[i].in = stages[i - 1].out)
    => Out(i) = Out(i - 1)

\* The same position applied twice to a selection with a content range of
\* some width and an interior range.
C9_Witness ==
  \E i \in StageIds :
    /\ i > 1
    /\ IsPositionRun(i)
    /\ IsPositionRun(i - 1)
    /\ stages[i].position = stages[i - 1].position
    /\ stages[i].in = stages[i - 1].out
    /\ In(i - 1).contentRange.start # In(i - 1).contentRange.end
    /\ IsDefined(In(i - 1).interiorRange)
    /\ Out(i - 1) # In(i - 1)
    /\ Out(i) = Out(i - 1)

\* C10 - Token Stage frame: the output's delimiter is the single space,
\* whatever the input's was and whether or not the selection qualifies, and
\* its editor, content range, interior range, boundary, isRawSelection and
\* isReversed equal the input's.
C10_TokenFrame ==
  \A i \in StageIds : IsTokenRun(i) =>
    /\ Out(i).delimiter = Some(" ")
    /\ Out(i).editor = In(i).editor
    /\ Out(i).contentRange = In(i).contentRange
    /\ Out(i).interiorRange = In(i).interiorRange
    /\ Out(i).boundary = In(i).boundary
    /\ Out(i).isRawSelection = In(i).isRawSelection
    /\ Out(i).isReversed = In(i).isReversed

\* A selection with another delimiter that does not qualify.
C10_Witness ==
  \E i \in StageIds :
    /\ IsTokenRun(i)
    /\ In(i).delimiter = Some(",")
    /\ IsDefined(In(i).interiorRange)
    /\ ~Qualifies(In(i).contentRange)
    /\ Out(i).delimiter = Some(" ")

====
